---- MODULE Spec2Model ----
(***************************************************************************)
(* Model of IdentityNumber::from_str (idcard/src/id.rs): validation and    *)
(* decomposition of an 18-character resident identity number.              *)
(*                                                                         *)
(* A string is a sequence of Unicode scalar values (codepoints);  a        *)
(* &str slice is the UTF-8 byte sequence of such a string.  str::split_at  *)
(* takes a BYTE offset and panics when the offset is not on a character    *)
(* boundary, so the encoding is modelled byte for byte.                    *)
(***************************************************************************)
EXTENDS Integers, Sequences, FiniteSets, TLC

VARIABLES s, edits, last, pc, result

vars == <<s, edits, last, pc, result>>

--------------------------------------------------------------------------
(* Bounds of the explored input space *)

\* number of edits (substitute / drop / append) applied to a base number
MaxEdits == 2
\* number of digit positions changed in a 17-digit checksum input
MaxDigitEdits == 2

--------------------------------------------------------------------------
(* Constants of id.rs *)

IDNUMBER_LENGTH == 18
\* the bug of exchanging the weights of the first two digits
WEIGHTS_swapped == <<9, 7, 10, 5, 8, 4, 2, 1, 6, 3, 7, 9, 10, 5, 8, 4, 2>>

WEIGHTS == <<7, 9, 10, 5, 8, 4, 2, 1, 6, 3, 7, 9, 10, 5, 8, 4, 2>>
\* the bug of listing the digits in natural order: '0','1','X',..
CHECK_CODE_natural == <<48, 49, 88, 57, 56, 55, 54, 53, 52, 51, 50>>

\* the bug of a lowercase 'x' in the alphabet
CHECK_CODE_lower == <<49, 48, 120, 57, 56, 55, 54, 53, 52, 51, 50>>

\* '1','0','X','9','8','7','6','5','4','3','2'
CHECK_CODE == <<49, 48, 88, 57, 56, 55, 54, 53, 52, 51, 50>>
DIV_CODE_LENGTH == 6
BIRTHDAY_LENGTH == 8
SEQ_LENGTH == 3
ID_MODULE == 11
\* InvalidBirthday: nobody alive was born before 1900
MinYear == 1900

--------------------------------------------------------------------------
(* Strings: codepoints and their UTF-8 encoding *)

Min(a, b) == IF a < b THEN a ELSE b

\* the string of the decimal digits ds
Digits(ds) == [i \in DOMAIN ds |-> 48 + ds[i]]

\* char::to_digit(10): Some(d) for '0'..'9', None (-1) otherwise
to_digit(c) == IF c >= 48 /\ c <= 57 THEN c - 48 ELSE -1

\* UTF-8 encoding of one scalar value
EncodeChar(c) ==
    IF c < 128 THEN <<c>>
    ELSE IF c < 2048 THEN <<192 + (c \div 64), 128 + (c % 64)>>
    ELSE IF c < 65536
         THEN <<224 + (c \div 4096), 128 + ((c \div 64) % 64), 128 + (c % 64)>>
         ELSE <<240 + (c \div 262144), 128 + ((c \div 4096) % 64),
                128 + ((c \div 64) % 64), 128 + (c % 64)>>

RECURSIVE Utf8(_)
\* the bytes of a &str holding the codepoints str
Utf8(str) == IF str = <<>> THEN <<>>
             ELSE EncodeChar(Head(str)) \o Utf8(Tail(str))

\* number of bytes of the character introduced by lead byte b
CharWidth(b) == IF b < 128 THEN 1 ELSE IF b < 224 THEN 2 ELSE IF b < 240 THEN 3 ELSE 4

DecodeChar(bs) ==
    LET b == bs[1] IN
    IF b < 128 THEN b
    ELSE IF b < 224 THEN (b - 192) * 64 + (bs[2] - 128)
    ELSE IF b < 240 THEN (b - 224) * 4096 + (bs[2] - 128) * 64 + (bs[3] - 128)
    ELSE (b - 240) * 262144 + (bs[2] - 128) * 4096 + (bs[3] - 128) * 64 + (bs[4] - 128)

RECURSIVE Chars(_)
\* str::chars() of a slice that starts and ends on character boundaries
Chars(bs) == IF bs = <<>> THEN <<>>
             ELSE LET w == CharWidth(bs[1])
                  IN <<DecodeChar(bs)>> \o Chars(SubSeq(bs, w + 1, Len(bs)))

\* str::is_char_boundary: start, end, or a byte that is not a continuation byte
is_char_boundary(bs, idx) ==
    \/ idx = 0
    \/ idx = Len(bs)
    \/ idx < Len(bs) /\ ~(bs[idx + 1] >= 128 /\ bs[idx + 1] < 192)

\* str::split_at(mid): panics unless mid is on a character boundary
split_at(bs, mid) ==
    IF is_char_boundary(bs, mid)
    THEN [ok |-> TRUE, left |-> SubSeq(bs, 1, mid), right |-> SubSeq(bs, mid + 1, Len(bs))]
    ELSE [ok |-> FALSE, left |-> <<>>, right |-> <<>>]

--------------------------------------------------------------------------
(* Collaborators: gb2260::Division, utils::Date, utils::Seq *)

AllDigits(str) == \A i \in DOMAIN str : to_digit(str[i]) # -1

RECURSIVE Num(_)
\* value of a string of decimal digits
Num(str) == IF str = <<>> THEN 0
            ELSE 10 * Num(SubSeq(str, 1, Len(str) - 1)) + to_digit(str[Len(str)])

\* the division registry: "510108" and "110101"
RegisteredDivisions == {Digits(<<5, 1, 0, 1, 0, 8>>), Digits(<<1, 1, 0, 1, 0, 1>>)}

\* Division::get(code): the handle of a registered code, or None
DivisionGet(code) ==
    IF code \in RegisteredDivisions
    THEN [some |-> TRUE, val |-> code]
    ELSE [some |-> FALSE, val |-> <<>>]

\* the day validation happens ("now")
Today == <<2020, 1, 1>>

IsLeap(y) == (y % 4 = 0 /\ y % 100 # 0) \/ y % 400 = 0

DaysIn(y, m) == IF m = 2 THEN (IF IsLeap(y) THEN 29 ELSE 28)
                ELSE IF m \in {4, 6, 9, 11} THEN 30 ELSE 31

\* str::parse::<Date>: eight digits YYYYMMDD naming a calendar day that is
\* neither before MinYear nor after Today
DateFromStr(str) ==
    IF Len(str) = 8 /\ AllDigits(str)
    THEN LET y == Num(SubSeq(str, 1, 4))
             m == Num(SubSeq(str, 5, 6))
             d == Num(SubSeq(str, 7, 8))
             calendar == m >= 1 /\ m <= 12 /\ d >= 1 /\ d <= DaysIn(y, m)
             ymd == y * 10000 + m * 100 + d
             now == Today[1] * 10000 + Today[2] * 100 + Today[3]
         IN IF calendar /\ y >= MinYear /\ ymd <= now
            THEN [ok |-> TRUE, val |-> <<y, m, d>>]
            ELSE [ok |-> FALSE, val |-> <<>>]
    ELSE [ok |-> FALSE, val |-> <<>>]

\* str::parse::<Seq>: three digits, the ordinal 0..999
SeqFromStr(str) ==
    IF Len(str) = 3 /\ AllDigits(str)
    THEN [ok |-> TRUE, val |-> Num(str)]
    ELSE [ok |-> FALSE, val |-> 0]

--------------------------------------------------------------------------
(* Outcomes of from_str *)

\* kind: "Ok", one of the six InvalidId variants, or "panic" (at: its cause)
Blank == [kind |-> "none", len |-> 0, text |-> <<>>, chr |-> 0,
          div |-> <<>>, birth |-> <<>>, seq |-> 0,
          idx |-> -1, at |-> "", steps |-> <<>>]

Panic(cause, done) == [Blank EXCEPT !.kind = "panic", !.at = cause, !.steps = done]

--------------------------------------------------------------------------
(* Checksum engine: id.rs lines 89-95 *)

U8(n) == n % 256

\* the bug of summing first and reducing modulo 11 afterwards
fold_step_unreduced(acc, d, w) == U8(acc + U8(d * w))

\* one step of the fold, in u8: (acc + d * w) % ID_MODULE
fold_step(acc, d, w) == U8(acc + U8(d * w)) % ID_MODULE

\* whether that step leaves the range of u8
step_overflows(acc, d, w) == d * w > 255 \/ acc + U8(d * w) > 255

RECURSIVE fold(_, _)
\* fold(0u8, ..) over the first i digits: the accumulators, from the initial
\* 0 (at index 1) to the one after step i (at index i + 1)
fold(ds, i) == IF i = 0 THEN <<0>>
               ELSE LET accs == fold(ds, i - 1)
                    IN Append(accs, fold_step(accs[i], ds[i], WEIGHTS[i]))

\* whether some step of the fold leaves the range of u8
fold_overflows(ds, accs) ==
    \E i \in DOMAIN ds : step_overflows(accs[i], ds[i], WEIGHTS[i])

\* the bug of taking all 18 characters
chk_chars_all(str) == SubSeq(str, 1, Min(Len(str), IDNUMBER_LENGTH))

\* s.chars().take(IDNUMBER_LENGTH - 1)
chk_chars(str) == SubSeq(str, 1, Min(Len(str), IDNUMBER_LENGTH - 1))

\* chk_idx: zip pulls a character through to_digit(10).unwrap() before it
\* asks WEIGHTS for the matching weight, so one character past the weights
\* is still converted; oc: the build checks arithmetic overflow
chk_idx(str, oc) ==
    LET taken == chk_chars(str)
        pulled == SubSeq(taken, 1, Min(Len(taken), Len(WEIGHTS) + 1))
        n == Min(Len(taken), Len(WEIGHTS))
        ds == [i \in 1..n |-> to_digit(taken[i])]
        accs == fold(ds, n)
    IN IF ~AllDigits(pulled) THEN [at |-> "unwrap", idx |-> -1]
       ELSE IF oc /\ fold_overflows(ds, accs) THEN [at |-> "overflow", idx |-> -1]
       ELSE [at |-> "", idx |-> accs[n + 1]]

\* lines 89-95: the index and CHECK_CODE[chk_idx], the expected character
expected_code(str, oc, done) ==
    LET c == chk_idx(str, oc) IN
    IF c.at # "" THEN Panic(c.at, done)
    ELSE IF c.idx + 1 > Len(CHECK_CODE) THEN [Panic("index", done) EXCEPT !.idx = c.idx]
    ELSE [Blank EXCEPT !.kind = "chk", !.idx = c.idx,
                       !.chr = CHECK_CODE[c.idx + 1], !.steps = done]

\* the bug of reporting the expected character
wrong_check_code_expected(chk_code, expected) == expected

\* the payload of WrongCheckCode: the character found in the input
wrong_check_code(chk_code, expected) == chk_code

--------------------------------------------------------------------------
(* IdentityNumber::from_str: id.rs lines 58-100 *)

\* the bug of measuring the input in bytes
s_len_bytes(str) == Len(Utf8(str))

\* s.chars().count()
s_len(str) == Len(str)

\* lines 80-99: checksum character, checksum index, comparison, record
check_and_build(str, oc, div, birth, seq, chk_str, done) ==
    LET cs == Chars(chk_str)
        st5 == Append(done, "chk_code")
        st6 == Append(st5, "chk_idx")
    IN IF cs = <<>> THEN Panic("unreachable", st5)
       ELSE LET chr == cs[1] IN
       IF ~(\E k \in DOMAIN CHECK_CODE : CHECK_CODE[k] = chr)
       THEN [Blank EXCEPT !.kind = "InvalidCheckCode", !.chr = chr, !.steps = st5]
       ELSE LET e == expected_code(str, oc, st6) IN
       IF e.kind = "panic" THEN e
       ELSE IF chr # e.chr
       THEN [Blank EXCEPT !.kind = "WrongCheckCode",
                          !.chr = wrong_check_code(chr, e.chr),
                          !.idx = e.idx, !.steps = st6]
       ELSE [Blank EXCEPT !.kind = "Ok", !.div = div, !.birth = birth,
                          !.seq = seq, !.idx = e.idx, !.steps = st6]

from_str(str, oc) ==
    LET n == s_len(str)
        st1 == <<"length">>
        st2 == <<"length", "division">>
        st3 == <<"length", "division", "birthday">>
        st4 == <<"length", "division", "birthday", "seq">>
    IN IF n # IDNUMBER_LENGTH
       THEN [Blank EXCEPT !.kind = "LengthNotMatch", !.len = n, !.steps = st1]
       ELSE LET sp1 == split_at(Utf8(str), DIV_CODE_LENGTH) IN
       IF ~sp1.ok THEN Panic("split_at", st1)
       ELSE LET div_code == Chars(sp1.left)
                div == DivisionGet(div_code) IN
       IF ~div.some
       THEN [Blank EXCEPT !.kind = "DivisionNotFound", !.text = div_code, !.steps = st2]
       ELSE LET sp2 == split_at(sp1.right, BIRTHDAY_LENGTH) IN
       IF ~sp2.ok THEN Panic("split_at", st2)
       ELSE LET birthday == Chars(sp2.left)
                birth == DateFromStr(birthday) IN
       IF ~birth.ok
       THEN [Blank EXCEPT !.kind = "InvalidBirthday", !.text = birthday, !.steps = st3]
       ELSE LET sp3 == split_at(sp2.right, SEQ_LENGTH) IN
       IF ~sp3.ok THEN Panic("split_at", st3)
       ELSE LET seqstr == Chars(sp3.left)
                seq == SeqFromStr(seqstr) IN
       IF ~seq.ok
       THEN [Blank EXCEPT !.kind = "InvalidSeq", !.text = seqstr, !.steps = st4]
       ELSE check_and_build(str, oc, div.val, birth.val, seq.val, sp3.right, st4)

--------------------------------------------------------------------------
(* Inputs and behaviours *)

\* "510108197205052137" (id.rs test_valid_id) and "11010119900307010X"
BaseIds == {Digits(<<5, 1, 0, 1, 0, 8, 1, 9, 7, 2, 0, 5, 0, 5, 2, 1, 3, 7>>),
            Digits(<<1, 1, 0, 1, 0, 1, 1, 9, 9, 0, 0, 3, 0, 7, 0, 1, 0>>) \o <<88>>}

\* '0', '9', 'X', 'x', U+00E9 (two bytes), U+4E2D (three bytes)
EditChars == {48, 57, 88, 120, 233, 20013}

Init ==
    /\ s \in BaseIds
    /\ edits = 0
    /\ last = 0
    /\ pc = "input"
    /\ result = Blank

\* replace the character at position p, to the right of the last replacement
Substitute(p, c) ==
    /\ pc = "input"
    /\ edits < MaxEdits
    /\ p > last /\ p <= Len(s)
    /\ s[p] # c
    /\ s' = [s EXCEPT ![p] = c]
    /\ edits' = edits + 1
    /\ last' = p
    /\ UNCHANGED <<pc, result>>

Drop ==
    /\ pc = "input"
    /\ edits < MaxEdits
    /\ Len(s) > 0
    /\ s' = SubSeq(s, 1, Len(s) - 1)
    /\ edits' = edits + 1
    /\ UNCHANGED <<last, pc, result>>

Extend(c) ==
    /\ pc = "input"
    /\ edits < MaxEdits
    /\ s' = Append(s, c)
    /\ edits' = edits + 1
    /\ UNCHANGED <<last, pc, result>>

\* s.parse::<IdentityNumber>()
Parse ==
    /\ pc = "input"
    /\ \E oc \in BOOLEAN : result' = from_str(s, oc)
    /\ pc' = "done"
    /\ UNCHANGED <<s, edits, last>>

Next ==
    \/ \E p \in 1..(IDNUMBER_LENGTH + MaxEdits), c \in EditChars : Substitute(p, c)
    \/ Drop
    \/ \E c \in EditChars : Extend(c)
    \/ Parse

Spec == Init /\ [][Next]_vars

--------------------------------------------------------------------------
(* The checksum engine on its own: seventeen digits, a few of them varied *)

\* "99999999999999999": the digits that make every product largest
FoldBases == {Digits(<<9, 9, 9, 9, 9, 9, 9, 9, 9, 9, 9, 9, 9, 9, 9, 9, 9>>)}

InitFold ==
    /\ s \in FoldBases
    /\ edits = 0
    /\ last = 0
    /\ pc = "digits"
    /\ result = Blank

\* change the digit at position p, to the right of the last change
SetDigit(p, d) ==
    /\ pc = "digits"
    /\ edits < MaxDigitEdits
    /\ p > last /\ p <= Len(s)
    /\ s[p] # 48 + d
    /\ s' = [s EXCEPT ![p] = 48 + d]
    /\ edits' = edits + 1
    /\ last' = p
    /\ UNCHANGED <<pc, result>>

\* lines 89-95 applied to the digits
Checksum ==
    /\ pc = "digits"
    /\ \E oc \in BOOLEAN : result' = expected_code(s, oc, <<"chk_idx">>)
    /\ pc' = "done"
    /\ UNCHANGED <<s, edits, last>>

NextFold ==
    \/ \E p \in 1..(IDNUMBER_LENGTH - 1), d \in 0..9 : SetDigit(p, d)
    \/ Checksum

SpecFold == InitFold /\ [][NextFold]_vars

--------------------------------------------------------------------------
(* Properties *)

Done == pc = "done"

\* the six variants of InvalidId
ErrorKinds == {"LengthNotMatch", "DivisionNotFound", "InvalidBirthday",
               "InvalidSeq", "InvalidCheckCode", "WrongCheckCode"}

\* the fields of an 18-character input, by character position
DivField(str) == SubSeq(str, 1, 6)
BirthField(str) == SubSeq(str, 7, 14)
SeqField(str) == SubSeq(str, 15, 17)
ChkField(str) == str[18]

\* the weights and the alphabet as the checksum rule states them
RuleWeights == <<7, 9, 10, 5, 8, 4, 2, 1, 6, 3, 7, 9, 10, 5, 8, 4, 2>>
RuleAlphabet == <<49, 48, 88, 57, 56, 55, 54, 53, 52, 51, 50>>

InAlphabet(c) == \E k \in DOMAIN RuleAlphabet : RuleAlphabet[k] = c

RECURSIVE WeightedSum(_, _)
\* d[1]*w[1] + .. + d[i]*w[i], in unbounded integers
WeightedSum(str, i) == IF i = 0 THEN 0
                       ELSE WeightedSum(str, i - 1) + to_digit(str[i]) * RuleWeights[i]

\* the checksum character the rule assigns to seventeen leading digits
RuleCode(str) == RuleAlphabet[(WeightedSum(str, 17) % 11) + 1]

\* division, birth date and sequence of an 18-character input are valid
FieldsValid(str) ==
    /\ Len(str) = 18
    /\ DivisionGet(DivField(str)).some
    /\ DateFromStr(BirthField(str)).ok
    /\ SeqFromStr(SeqField(str)).ok

\* the outcome of the first failing check, in the order division, birth
\* date, sequence, checksum character, checksum arithmetic
FirstFailing(str) ==
    IF ~DivisionGet(DivField(str)).some THEN "DivisionNotFound"
    ELSE IF ~DateFromStr(BirthField(str)).ok THEN "InvalidBirthday"
    ELSE IF ~SeqFromStr(SeqField(str)).ok THEN "InvalidSeq"
    ELSE IF ~InAlphabet(ChkField(str)) THEN "InvalidCheckCode"
    ELSE IF ChkField(str) # RuleCode(str) THEN "WrongCheckCode"
    ELSE "Ok"

HasMultiByte(str) == \E i \in DOMAIN str : str[i] >= 128

\* C1: every parse ends in a success record or in one of the six error
\* variants; no input, multi-byte ones included, ends in a panic.
C1_OneOutcome == Done => result.kind \in ({"Ok"} \cup ErrorKinds)

\* C2: an input of n # 18 codepoints yields LengthNotMatch(n), with the
\* codepoint count as payload, and no later check is attempted.
C2_LengthNotMatch ==
    (Done /\ Len(s) # 18) =>
        /\ result.kind = "LengthNotMatch"
        /\ result.len = Len(s)
        /\ result.steps = <<"length">>

\* a 17-codepoint input of 18 bytes has been rejected with its codepoint count
C2_Witness ==
    /\ Done /\ Len(s) = 17 /\ Len(Utf8(s)) = 18
    /\ result.kind = "LengthNotMatch" /\ result.len = 17

\* C3: for every 18-codepoint input the outcome is that of the first failing
\* check in the order division, birth date, sequence, checksum character,
\* checksum arithmetic.
C3_FirstFailing == (Done /\ Len(s) = 18) => result.kind = FirstFailing(s)

\* C4: an 18-character input with valid division, birth date and sequence
\* whose 18th character is the expected checksum character parses to the
\* record of the independently computed division, date and sequence.
C4_ValidParses ==
    (Done /\ FieldsValid(s) /\ ChkField(s) = RuleCode(s)) =>
        /\ result.kind = "Ok"
        /\ result.div = DivisionGet(DivField(s)).val
        /\ result.birth = DateFromStr(BirthField(s)).val
        /\ result.seq = SeqFromStr(SeqField(s)).val

\* a number edited in its sequence and its checksum character has parsed
C4_Witness ==
    /\ Done /\ edits = 2 /\ FieldsValid(s) /\ ChkField(s) = RuleCode(s)
    /\ result.kind = "Ok" /\ result.seq = SeqFromStr(SeqField(s)).val

\* C5: with valid division, birth date and sequence, an 18th character
\* outside the alphabet yields InvalidCheckCode carrying that character,
\* never WrongCheckCode; so does 'x' where 'X' is expected.
C5_InvalidCheckCode ==
    (Done /\ FieldsValid(s) /\ ~InAlphabet(ChkField(s))) =>
        /\ result.kind = "InvalidCheckCode"
        /\ result.chr = ChkField(s)

\* a lowercase 'x' where 'X' is expected has been rejected as InvalidCheckCode
C5_Witness ==
    /\ Done /\ FieldsValid(s) /\ ChkField(s) = 120 /\ RuleCode(s) = 88
    /\ result.kind = "InvalidCheckCode" /\ result.chr = 120

\* C6: with valid division, birth date and sequence and an 18th character c
\* of the alphabet, parse succeeds iff c is the expected character, and
\* otherwise returns WrongCheckCode(c) with the character of the input.
C6_WrongCheckCode ==
    (Done /\ FieldsValid(s) /\ InAlphabet(ChkField(s))) =>
        /\ result.kind = "Ok" <=> ChkField(s) = RuleCode(s)
        /\ ChkField(s) # RuleCode(s) =>
               (result.kind = "WrongCheckCode" /\ result.chr = ChkField(s))

\* an 'X' where another character is expected has been reported as itself
C6_Witness ==
    /\ Done /\ FieldsValid(s) /\ ChkField(s) = 88 /\ RuleCode(s) # 88
    /\ result.kind = "WrongCheckCode" /\ result.chr = 88

\* C7: an 18-codepoint input is split at codepoint offsets 6, 14 and 17, so
\* no split fails and the payloads of DivisionNotFound, InvalidBirthday and
\* InvalidSeq are the 6-, 8- and 3-codepoint fields.
C7_CodepointFields ==
    (Done /\ Len(s) = 18) =>
        /\ result.at # "split_at"
        /\ result.kind = "DivisionNotFound" => result.text = DivField(s)
        /\ result.kind = "InvalidBirthday" => result.text = BirthField(s)
        /\ result.kind = "InvalidSeq" => result.text = SeqField(s)

\* C8: the index of the u8 fold equals the weighted sum modulo 11, and the
\* expected character is the alphabet's entry at that index.
C8_FoldIsSumMod11 ==
    Done =>
        /\ result.kind = "chk"
        /\ result.idx = WeightedSum(s, 17) % 11
        /\ result.chr = RuleAlphabet[result.idx + 1]

\* seventeen digits, two of them changed, have the index 2 and the code 'X'
C8_Witness ==
    /\ Done /\ edits = 2 /\ Len(s) = 17
    /\ result.kind = "chk" /\ result.idx = 2 /\ result.chr = 88

\* C9: when parse reaches the checksum computation, the first seventeen
\* codepoints are ASCII digits and to_digit(10).unwrap() does not fail.
C9_DigitsAtChecksum ==
    (Done /\ Len(result.steps) = 6) =>
        /\ AllDigits(SubSeq(s, 1, 17))
        /\ result.at # "unwrap"

\* a number ending in a correct 'X' has passed the checksum computation
C9_Witness ==
    /\ Done /\ Len(result.steps) = 6 /\ result.steps[6] = "chk_idx"
    /\ ChkField(s) = 88 /\ result.kind = "Ok"

\* the digits of the first seventeen characters
FoldDigits == [i \in 1..17 |-> to_digit(s[i])]

\* C10: in the fold over seventeen digits every accumulator is at most 10,
\* every product at most 90 and every sum at most 100, so nothing leaves
\* u8, and the index is in 0..10, inside CHECK_CODE.
C10_NoOverflow ==
    Done =>
        LET accs == fold(FoldDigits, 17) IN
        /\ \A i \in 1..17 :
              /\ accs[i] <= 10
              /\ FoldDigits[i] * WEIGHTS[i] <= 90
              /\ accs[i] + FoldDigits[i] * WEIGHTS[i] <= 100
        /\ result.kind # "panic"
        /\ result.idx \in 0..10

\* a step has added the product 90 to the accumulator 10
C10_Witness ==
    /\ Done /\ result.kind = "chk"
    /\ LET accs == fold(FoldDigits, 17) IN
       \E i \in 1..17 : accs[i] = 10 /\ FoldDigits[i] * WEIGHTS[i] = 90

====
